---- MODULE Spec2Model ----
(***************************************************************************)
(* The string-transformation DSL of operators.py and its evaluator.        *)
(* A Python str is a sequence of one-character strings; a Python int is an *)
(* Integer; an evaluation returns a record [exc, val] where exc is "none"  *)
(* for a normal return and the exception class name otherwise.             *)
(* Three specifications share the module: Spec constructs one node and     *)
(* evaluates it; SpecPure runs several evaluations of shared programs      *)
(* concurrently; SpecTrain is the retry loop of Trainer.train in train.py. *)
(***************************************************************************)
EXTENDS Integers, Sequences, FiniteSets, TLC

VARIABLES
    \* one node and its evaluation
    value, node, out, pc,
    \* the shared programs and the evaluations in flight
    programs, evals,
    \* Trainer.train
    config, tpc, retry_i, example_idx, step_info, calls, outcome, raised, saved

dslVars == <<value, node, out, pc>>
pureVars == <<programs, evals>>
trainVars == <<config, tpc, retry_i, example_idx, step_info, calls, outcome,
               raised, saved>>

vars == <<dslVars, pureVars, trainVars>>

(***************************************************************************)
(* Bounds of the model.                                                    *)
(***************************************************************************)
\* longest input string
MaxLen == 3
\* SubStr positions range over -MaxPos..MaxPos
MaxPos == 4
\* match indices range over -MaxIdx..MaxIdx
MaxIdx == 2
\* longest argument list of Concat
MaxArgs == 2

(***************************************************************************)
(* Characters.  string.ascii_letters, digits, punctuation and whitespace,  *)
(* each cut down to a few representatives.                                 *)
(***************************************************************************)
UpperChars == {"A", "B"}
LowerChars == {"a", "b"}
DigitChars == {"1"}
Punctuation == {"-"}
Whitespace == {" "}

DELIMITER == Punctuation \cup Whitespace
CHARACTER == UpperChars \cup LowerChars \cup DigitChars \cup DELIMITER

\* the characters input strings are drawn from
Alphabet == {"a", "B", "1", " "}

StringsUpTo(n) == UNION {[1..k -> Alphabet] : k \in 0..n}
Strings == StringsUpTo(MaxLen)

Positions == (0 - MaxPos)..MaxPos
Indices == (0 - MaxIdx)..MaxIdx

Min(a, b) == IF a < b THEN a ELSE b
Max(a, b) == IF a > b THEN a ELSE b
Abs(a) == IF a < 0 THEN 0 - a ELSE a

(***************************************************************************)
(* Python sequence primitives used by the evaluator.                       *)
(***************************************************************************)
\* a slice bound i of a sequence of length n, as Python normalises it
SliceBound(i, n) == IF i < 0 THEN Max(i + n, 0) ELSE Min(i, n)

\* s[lo:hi]
Slice(s, lo, hi) ==
    LET a == SliceBound(lo, Len(s))
        b == SliceBound(hi, Len(s))
    IN  IF a >= b THEN <<>> ELSE SubSeq(s, a + 1, b)

\* s[lo:]
SliceFrom(s, lo) == Slice(s, lo, Len(s))

\* s[:hi]
SliceTo(s, hi) == Slice(s, 0, hi)

\* whether s[i] is an IndexError
BadSubscript(s, i) == i >= Len(s) \/ i < 0 - Len(s)

\* s[i] for a subscript in range
Subscript(s, i) == IF i < 0 THEN s[Len(s) + i + 1] ELSE s[i + 1]

RECURSIVE Join(_, _)
\* sep.join(strs)
Join(sep, strs) ==
    IF Len(strs) = 0 THEN <<>>
    ELSE IF Len(strs) = 1 THEN strs[1]
    ELSE strs[1] \o sep \o Join(sep, Tail(strs))

Ok(s) == [exc |-> "none", val |-> s]
Raise(e) == [exc |-> e, val |-> <<>>]

(***************************************************************************)
(* Enumerations.                                                           *)
(***************************************************************************)
Type == {"NUMBER", "WORD", "ALPHANUM", "ALL_CAPS", "PROP_CASE", "LOWER",
         "DIGIT", "CHAR"}
Case == {"PROPER", "ALL_CAPS", "LOWER"}
Boundary == {"START", "END"}

\* A DSL regex is a Type, [t |-> type], or a Python str, [s |-> string].
TypeRegex(t) == [t |-> t]
StrRegex(s) == [s |-> s]
IsType(dsl_regex) == "t" \in DOMAIN dsl_regex

(***************************************************************************)
(* Regular expressions.  Every pattern the program builds is an optional   *)
(* one-character prefix class followed by a character class that is        *)
(* matched once or, under +, greedily one or more times.                   *)
(***************************************************************************)
Pattern(prefix, class, plus) == [prefix |-> prefix, class |-> class, plus |-> plus]

Letters == UpperChars \cup LowerChars

regex_for_type(type_) ==
    CASE type_ = "NUMBER"    -> Pattern(<<>>, DigitChars, TRUE)
      [] type_ = "WORD"      -> Pattern(<<>>, Letters, TRUE)
      [] type_ = "ALPHANUM"  -> Pattern(<<>>, Letters \cup DigitChars, TRUE)
      [] type_ = "ALL_CAPS"  -> Pattern(<<>>, UpperChars, TRUE)
      [] type_ = "PROP_CASE" -> Pattern(<<UpperChars>>, LowerChars, TRUE)
      [] type_ = "LOWER"     -> Pattern(<<>>, LowerChars, TRUE)
      [] type_ = "DIGIT"     -> Pattern(<<>>, DigitChars, FALSE)
      [] type_ = "CHAR"      -> Pattern(<<>>, Letters \cup DigitChars, FALSE)

\* a + that stops after one character
RunEnd_single(class, s, i) == i + 1

RECURSIVE RunEnd(_, _, _)
\* the 0-based offset where the run of class characters starting at i ends
RunEnd(class, s, i) ==
    IF i < Len(s) /\ s[i + 1] \in class THEN RunEnd(class, s, i + 1) ELSE i

\* the end offset of the match of regex starting at offset i of s, or -1
MatchAt(regex, s, i) ==
    LET k == Len(regex.prefix)
        prefixOk == /\ i + k <= Len(s)
                    /\ \A j \in 1..k : s[i + j] \in regex.prefix[j]
        b == i + k
    IN  IF ~prefixOk \/ b >= Len(s) \/ s[b + 1] \notin regex.class THEN -1
        ELSE IF regex.plus THEN RunEnd(regex.class, s, b)
        ELSE b + 1

RECURSIVE FindIterFrom(_, _, _)
FindIterFrom(regex, s, i) ==
    IF i >= Len(s) THEN <<>>
    ELSE LET e == MatchAt(regex, s, i)
         IN  IF e = -1 THEN FindIterFrom(regex, s, i + 1)
             ELSE <<<<i, e>>>> \o FindIterFrom(regex, s, e)

\* [match.span() for match in re.finditer(regex, s)]
FindIter(regex, s) == FindIterFrom(regex, s, 0)

RECURSIVE FindAllFrom(_, _, _)
FindAllFrom(regex, s, i) ==
    IF i >= Len(s) THEN <<>>
    ELSE LET e == MatchAt(regex, s, i)
         IN  IF e = -1 THEN FindAllFrom(regex, s, i + 1)
             ELSE <<SubSeq(s, i + 1, e)>> \o FindAllFrom(regex, s, e)

\* re.findall(regex, s)
FindAll(regex, s) == FindAllFrom(regex, s, 0)

match_type(type_, v) == FindAll(regex_for_type(type_), v)

\* the assertion without the membership test
DelimiterOk_anychar(dsl_regex) == Len(dsl_regex.s) = 1

\* the assertion of match_dsl_regex on a str argument
DelimiterOk(dsl_regex) == Len(dsl_regex.s) = 1 /\ dsl_regex.s[1] \in DELIMITER

\* whether match_dsl_regex raises (AssertionError)
MatchFails(dsl_regex) == ~IsType(dsl_regex) /\ ~DelimiterOk(dsl_regex)

\* the spans match_dsl_regex returns when it does not raise
match_dsl_regex(dsl_regex, v) ==
    IF IsType(dsl_regex) THEN FindIter(regex_for_type(dsl_regex.t), v)
    ELSE FindIter(Pattern(<<>>, {dsl_regex.s[1]}, FALSE), v)

(***************************************************************************)
(* AST nodes: one constructor per class, storing its arguments unchecked.  *)
(***************************************************************************)
Concat(args) == [op |-> "Concat", expressions |-> args]
Compose(nesting, nesting_or_substring) ==
    [op |-> "Compose", nesting |-> nesting,
     nesting_or_substring |-> nesting_or_substring]
ConstStr(char) == [op |-> "ConstStr", char |-> char]
SubStr(pos1, pos2) == [op |-> "SubStr", pos1 |-> pos1, pos2 |-> pos2]
GetSpan(dsl_regex1, index1, bound1, dsl_regex2, index2, bound2) ==
    [op |-> "GetSpan",
     dsl_regex1 |-> dsl_regex1, index1 |-> index1, bound1 |-> bound1,
     dsl_regex2 |-> dsl_regex2, index2 |-> index2, bound2 |-> bound2]
GetToken(type_, index) == [op |-> "GetToken", type_ |-> type_, index |-> index]
ToCase(case) == [op |-> "ToCase", case |-> case]
Replace(delim1, delim2) == [op |-> "Replace", delim1 |-> delim1, delim2 |-> delim2]
Trim == [op |-> "Trim"]
GetUpto(dsl_regex) == [op |-> "GetUpto", dsl_regex |-> dsl_regex]
GetFrom(dsl_regex) == [op |-> "GetFrom", dsl_regex |-> dsl_regex]
GetFirst(type_, index) == [op |-> "GetFirst", type_ |-> type_, index |-> index]
GetAll(type_) == [op |-> "GetAll", type_ |-> type_]

(***************************************************************************)
(* eval of the leaf classes.                                               *)
(***************************************************************************)
ConstStrEval(n, v) == Ok(n.char)

\* value[p1:p2+1] taken for p2 = -1 too
SubStrTail_uniform(v, p1) == Slice(v, p1, 0)

\* value[p1:], the result of SubStr.eval when p2 = -1
SubStrTail(v, p1) == SliceFrom(v, p1)

substr_index(pos, v) ==
    IF pos > 0 THEN pos - 1
    ELSE IF Abs(pos) > Len(v) THEN 0
    ELSE pos

\* SubStrEval taking pos2 as an exclusive end
SubStrEval_exclusive(n, v) ==
    LET p1 == substr_index(n.pos1, v)
        p2 == substr_index(n.pos2, v)
    IN  IF p2 = -1 THEN Ok(SliceFrom(v, p1))
        ELSE Ok(Slice(v, p1, p2))

SubStrEval(n, v) ==
    LET p1 == substr_index(n.pos1, v)
        p2 == substr_index(n.pos2, v)
    IN  IF p2 = -1 THEN Ok(SubStrTail(v, p1))
        ELSE Ok(Slice(v, p1, p2 + 1))

\* span_index without the clamp of an index below -len(matches)
span_index_noclamp(dsl_regex, index, bound, v) ==
    IF MatchFails(dsl_regex) THEN [exc |-> "AssertionError", pos |-> 0]
    ELSE
    LET matches == match_dsl_regex(dsl_regex, v)
        i == IF index < 0 THEN index ELSE index - 1
    IN  IF i >= Len(matches) THEN [exc |-> "none", pos |-> Len(matches) - 1]
        ELSE IF BadSubscript(matches, i) THEN [exc |-> "IndexError", pos |-> 0]
        ELSE LET span == Subscript(matches, i)
             IN  [exc |-> "none",
                  pos |-> IF bound = "START" THEN span[1] ELSE span[2]]

\* the offset GetSpan._span_index returns, [exc, pos]
span_index(dsl_regex, index, bound, v) ==
    IF MatchFails(dsl_regex) THEN [exc |-> "AssertionError", pos |-> 0]
    ELSE
    LET matches == match_dsl_regex(dsl_regex, v)
        i == IF index < 0 THEN index ELSE index - 1
    IN  IF i >= Len(matches) THEN [exc |-> "none", pos |-> Len(matches) - 1]
        ELSE IF i < 0 - Len(matches) THEN [exc |-> "none", pos |-> 0]
        ELSE IF BadSubscript(matches, i) THEN [exc |-> "IndexError", pos |-> 0]
        ELSE LET span == Subscript(matches, i)
             IN  [exc |-> "none",
                  pos |-> IF bound = "START" THEN span[1] ELSE span[2]]

GetSpanEval(n, v) ==
    LET p1 == span_index(n.dsl_regex1, n.index1, n.bound1, v)
        p2 == span_index(n.dsl_regex2, n.index2, n.bound2, v)
    IN  IF p1.exc # "none" THEN Raise(p1.exc)
        ELSE IF p2.exc # "none" THEN Raise(p2.exc)
        ELSE Ok(Slice(v, p1.pos, p2.pos))

\* GetTokenEval clamping an out-of-range index to the first or last match
GetTokenEval_clamped(n, v) ==
    LET matches == match_type(n.type_, v)
        i == IF n.index > 0 THEN n.index - 1 ELSE n.index
    IN  IF Len(matches) = 0 THEN Raise("IndexError")
        ELSE IF i >= Len(matches) THEN Ok(matches[Len(matches)])
        ELSE IF i < 0 - Len(matches) THEN Ok(matches[1])
        ELSE Ok(Subscript(matches, i))

GetTokenEval(n, v) ==
    LET matches == match_type(n.type_, v)
        i == IF n.index > 0 THEN n.index - 1 ELSE n.index
    IN  IF BadSubscript(matches, i) THEN Raise("IndexError")
        ELSE Ok(Subscript(matches, i))

ToUpper(c) == CASE c = "a" -> "A" [] c = "b" -> "B" [] OTHER -> c
ToLower(c) == CASE c = "A" -> "a" [] c = "B" -> "b" [] OTHER -> c

\* str.upper, str.lower, str.capitalize
Upper(s) == [k \in 1..Len(s) |-> ToUpper(s[k])]
Lower(s) == [k \in 1..Len(s) |-> ToLower(s[k])]

\* str.title: every letter that follows a non-letter is upper-cased
Capitalize_title(s) ==
    [k \in 1..Len(s) |->
        IF k = 1 \/ s[k - 1] \notin Letters THEN ToUpper(s[k]) ELSE ToLower(s[k])]

Capitalize(s) == [k \in 1..Len(s) |-> IF k = 1 THEN ToUpper(s[k]) ELSE ToLower(s[k])]

ToCaseEval(n, v) ==
    CASE n.case = "PROPER"   -> Ok(Capitalize(v))
      [] n.case = "ALL_CAPS" -> Ok(Upper(v))
      [] n.case = "LOWER"    -> Ok(Lower(v))
      [] OTHER               -> Raise("ValueError")

\* s.replace(old, new, 1): only the first occurrence
StrReplace_first(s, old, new) ==
    IF \A k \in 1..Len(s) : s[k] # old[1] THEN s
    ELSE LET k == CHOOSE k \in 1..Len(s) :
                      s[k] = old[1] /\ \A j \in 1..(k - 1) : s[j] # old[1]
         IN  SubSeq(s, 1, k - 1) \o new \o SubSeq(s, k + 1, Len(s))

RECURSIVE StrReplace(_, _, _)
\* s.replace(old, new) for a one-character old
StrReplace(s, old, new) ==
    IF Len(s) = 0 THEN <<>>
    ELSE (IF s[1] = old[1] THEN new ELSE <<s[1]>>) \o StrReplace(Tail(s), old, new)

ReplaceEval(n, v) == Ok(StrReplace(v, n.delim1, n.delim2))

RECURSIVE LStrip(_)
LStrip(s) == IF Len(s) > 0 /\ s[1] \in Whitespace THEN LStrip(Tail(s)) ELSE s

RECURSIVE RStrip(_)
RStrip(s) ==
    IF Len(s) > 0 /\ s[Len(s)] \in Whitespace
    THEN RStrip(SubSeq(s, 1, Len(s) - 1)) ELSE s

\* str.lstrip in the place of str.strip
TrimEval_lstrip(n, v) == Ok(LStrip(v))

\* str.strip
TrimEval(n, v) == Ok(RStrip(LStrip(v)))

\* GetUptoEval cutting at the start of the first match
GetUptoEval_start(n, v) ==
    IF MatchFails(n.dsl_regex) THEN Raise("AssertionError")
    ELSE LET matches == match_dsl_regex(n.dsl_regex, v)
         IN  IF Len(matches) = 0 THEN Ok(<<>>)
             ELSE Ok(SliceTo(v, matches[1][1]))

GetUptoEval(n, v) ==
    IF MatchFails(n.dsl_regex) THEN Raise("AssertionError")
    ELSE LET matches == match_dsl_regex(n.dsl_regex, v)
         IN  IF Len(matches) = 0 THEN Ok(<<>>)
             ELSE Ok(SliceTo(v, matches[1][2]))

GetFromEval(n, v) ==
    IF MatchFails(n.dsl_regex) THEN Raise("AssertionError")
    ELSE LET matches == match_dsl_regex(n.dsl_regex, v)
         IN  IF Len(matches) = 0 THEN Ok(<<>>)
             ELSE Ok(SliceFrom(v, matches[1][2]))

\* GetFirstEval without the check of a negative index
GetFirstEval_unchecked(n, v) ==
    Ok(Join(<<>>, SliceTo(match_type(n.type_, v), n.index)))

GetFirstEval(n, v) ==
    LET matches == match_type(n.type_, v)
    IN  IF n.index < 0 THEN Raise("IndexError")
        ELSE Ok(Join(<<>>, SliceTo(matches, n.index)))

\* GetAllEval joining without a separator
GetAllEval_nosep(n, v) == Ok(Join(<<>>, match_type(n.type_, v)))

GetAllEval(n, v) == Ok(Join(<<" ">>, match_type(n.type_, v)))

(***************************************************************************)
(* eval of the composite classes, and the dispatch on the node's class.    *)
(***************************************************************************)
RECURSIVE Eval(_, _)

\* the first exception among the results rs, "none" when there is none
FirstExc(rs) ==
    IF \A k \in 1..Len(rs) : rs[k].exc = "none" THEN "none"
    ELSE rs[CHOOSE k \in 1..Len(rs) :
                /\ rs[k].exc # "none"
                /\ \A j \in 1..(k - 1) : rs[j].exc = "none"].exc

RECURSIVE Thread(_, _, _)
\* each expression evaluated on the result of the one before it
Thread(exprs, v, acc) ==
    IF Len(exprs) = 0 THEN Ok(acc)
    ELSE LET r == Eval(exprs[1], v)
         IN  IF r.exc # "none" THEN r
             ELSE Thread(Tail(exprs), r.val, acc \o r.val)

ConcatEval_threaded(n, v) == Thread(n.expressions, v, <<>>)

ConcatEval(n, v) ==
    LET rs == [k \in 1..Len(n.expressions) |-> Eval(n.expressions[k], v)]
    IN  IF FirstExc(rs) # "none" THEN Raise(FirstExc(rs))
        ELSE Ok(Join(<<>>, [k \in 1..Len(rs) |-> rs[k].val]))

\* ComposeEval applying the nesting first
ComposeEval_swapped(n, v) ==
    LET first == Eval(n.nesting, v)
    IN  IF first.exc # "none" THEN first
        ELSE Eval(n.nesting_or_substring, first.val)

ComposeEval(n, v) ==
    LET inner == Eval(n.nesting_or_substring, v)
    IN  IF inner.exc # "none" THEN inner
        ELSE Eval(n.nesting, inner.val)

Eval(n, v) ==
    CASE n.op = "Concat"   -> ConcatEval(n, v)
      [] n.op = "Compose"  -> ComposeEval(n, v)
      [] n.op = "ConstStr" -> ConstStrEval(n, v)
      [] n.op = "SubStr"   -> SubStrEval(n, v)
      [] n.op = "GetSpan"  -> GetSpanEval(n, v)
      [] n.op = "GetToken" -> GetTokenEval(n, v)
      [] n.op = "ToCase"   -> ToCaseEval(n, v)
      [] n.op = "Replace"  -> ReplaceEval(n, v)
      [] n.op = "Trim"     -> TrimEval(n, v)
      [] n.op = "GetUpto"  -> GetUptoEval(n, v)
      [] n.op = "GetFrom"  -> GetFromEval(n, v)
      [] n.op = "GetFirst" -> GetFirstEval(n, v)
      [] n.op = "GetAll"   -> GetAllEval(n, v)

(***************************************************************************)
(* Argument domains.                                                       *)
(***************************************************************************)
\* str arguments that fail the assertion of match_dsl_regex
BadStrs == {<<"a">>, <<" ", " ">>, <<>>}

DslRegexes ==
    {TypeRegex(t) : t \in Type}
    \cup {StrRegex(<<d>>) : d \in DELIMITER}
    \cup {StrRegex(s) : s \in BadStrs}

\* the DSL regexes GetSpan is constructed with
SpanRegexes == {TypeRegex("WORD"), StrRegex(<<" ">>), StrRegex(<<"a">>)}

NestingLeaves ==
    {GetToken(t, i) : t \in Type, i \in Indices}
    \cup {ToCase(c) : c \in Case}
    \cup {Replace(<<d1>>, <<d2>>) : d1 \in DELIMITER, d2 \in DELIMITER}
    \cup {Trim}
    \cup {GetUpto(r) : r \in DslRegexes}
    \cup {GetFrom(r) : r \in DslRegexes}
    \cup {GetFirst(t, i) : t \in Type, i \in Indices}
    \cup {GetAll(t) : t \in Type}

\* the second arguments Compose is constructed with
InnerSample ==
    {SubStr(1, -1), SubStr(2, 3),
     GetSpan(TypeRegex("WORD"), 1, "START", TypeRegex("WORD"), 1, "END"),
     GetToken("ALPHANUM", 2),
     Compose(Trim, SubStr(2, -1))}

\* the expressions Concat is constructed with
ExprSample ==
    {ConstStr(<<"a">>), SubStr(1, 2), SubStr(-1, -1),
     GetToken("WORD", 2), GetFirst("DIGIT", -1),
     Compose(GetUpto(StrRegex(<<"a">>)), SubStr(2, 3))}

ArgLists == UNION {[1..k -> ExprSample] : k \in 0..MaxArgs}

(***************************************************************************)
(* The values of the variables a specification does not use.               *)
(***************************************************************************)
NoNode == [op |-> "None"]
Pending == [exc |-> "pending", val |-> <<>>]
Unbound == [step |-> -1]

DslIdle ==
    /\ value = <<>>
    /\ node = NoNode
    /\ out = Pending
    /\ pc = "idle"

PureIdle ==
    /\ programs = <<>>
    /\ evals = <<>>

TrainIdle ==
    /\ config = [device |-> "none", checkpoint_step_size |-> 1]
    /\ tpc = "idle"
    /\ retry_i = 0
    /\ example_idx = 0
    /\ step_info = Unbound
    /\ calls = 0
    /\ outcome = "none"
    /\ raised = "none"
    /\ saved = <<>>

(***************************************************************************)
(* The state machine: a node is constructed, then evaluated on value.      *)
(***************************************************************************)
Init ==
    /\ value \in Strings
    /\ node = NoNode
    /\ out = Pending
    /\ pc = "new"
    /\ PureIdle
    /\ TrainIdle

\* n is constructed: __init__ stores the arguments and returns
Construct(n) ==
    /\ node' = n
    /\ pc' = "built"
    /\ UNCHANGED <<value, out, pureVars, trainVars>>

NewConcat ==
    /\ pc = "new"
    /\ \E args \in ArgLists : Construct(Concat(args))

NewCompose ==
    /\ pc = "new"
    /\ \E o \in NestingLeaves, i \in InnerSample : Construct(Compose(o, i))

NewConstStr ==
    /\ pc = "new"
    /\ \E c \in CHARACTER : Construct(ConstStr(<<c>>))

NewSubStr ==
    /\ pc = "new"
    /\ \E p1 \in Positions, p2 \in Positions : Construct(SubStr(p1, p2))

NewGetSpan ==
    /\ pc = "new"
    /\ \E r1 \in SpanRegexes, i1 \in Indices, b1 \in Boundary,
          r2 \in SpanRegexes, i2 \in Indices, b2 \in Boundary :
           Construct(GetSpan(r1, i1, b1, r2, i2, b2))

NewGetToken ==
    /\ pc = "new"
    /\ \E t \in Type, i \in Indices : Construct(GetToken(t, i))

NewToCase ==
    /\ pc = "new"
    /\ \E c \in Case : Construct(ToCase(c))

NewReplace ==
    /\ pc = "new"
    /\ \E d1 \in DELIMITER, d2 \in DELIMITER : Construct(Replace(<<d1>>, <<d2>>))

NewTrim ==
    /\ pc = "new"
    /\ Construct(Trim)

NewGetUpto ==
    /\ pc = "new"
    /\ \E r \in DslRegexes : Construct(GetUpto(r))

NewGetFrom ==
    /\ pc = "new"
    /\ \E r \in DslRegexes : Construct(GetFrom(r))

NewGetFirst ==
    /\ pc = "new"
    /\ \E t \in Type, i \in Indices : Construct(GetFirst(t, i))

NewGetAll ==
    /\ pc = "new"
    /\ \E t \in Type : Construct(GetAll(t))

\* node.eval(value)
EvalNode ==
    /\ pc = "built"
    /\ out' = Eval(node, value)
    /\ pc' = "done"
    /\ UNCHANGED <<value, node, pureVars, trainVars>>

Next ==
    \/ NewConcat
    \/ NewCompose
    \/ NewConstStr
    \/ NewSubStr
    \/ NewGetSpan
    \/ NewGetToken
    \/ NewToCase
    \/ NewReplace
    \/ NewTrim
    \/ NewGetUpto
    \/ NewGetFrom
    \/ NewGetFirst
    \/ NewGetAll
    \/ EvalNode

Spec == Init /\ [][Next]_vars

(***************************************************************************)
(* Concurrent evaluations.  The Concat objects of programs are shared by   *)
(* the threads; a thread in Concat.eval holds its value, the position in   *)
(* self.expressions and the list of results so far as locals.  A step      *)
(* evaluates one expression; threads interleave between steps.             *)
(***************************************************************************)
\* the threads evaluating
NumThreads == 2

Threads == 1..NumThreads

\* the programs the threads share
SharedPrograms ==
    <<Concat(<<ConstStr(<<"a">>), SubStr(1, 2)>>),
      Concat(<<GetToken("WORD", 2), SubStr(-1, -1)>>),
      Concat(<<Compose(ToCase("ALL_CAPS"), SubStr(2, 3)), GetAll("CHAR")>>)>>

\* the strings the programs are evaluated on
PureInputs == {<<>>, <<"a", " ", "B">>, <<"1", "a">>}

NotCalled ==
    [state |-> "idle", prog |-> 0, input |-> <<>>, k |-> 0, parts |-> <<>>,
     res |-> Pending]

InitPure ==
    /\ DslIdle
    /\ TrainIdle
    /\ programs = SharedPrograms
    /\ evals = [t \in Threads |-> NotCalled]

\* thread t calls programs[p].eval(v)
Call(t) ==
    /\ evals[t].state \in {"idle", "done"}
    /\ \E p \in 1..Len(programs), v \in PureInputs :
          evals' = [evals EXCEPT ![t] =
                       [state |-> "running", prog |-> p, input |-> v, k |-> 1,
                        parts |-> <<>>, res |-> Pending]]
    /\ UNCHANGED <<programs, dslVars, trainVars>>

\* an evaluation that consumes self.expressions as it goes
ConcatStep_consuming(th, progs) ==
    LET r == Eval(Head(progs[th.prog].expressions), th.input)
    IN  [th |-> IF r.exc # "none"
                THEN [th EXCEPT !.state = "done", !.res = r]
                ELSE [th EXCEPT !.parts = Append(@, r.val)],
         programs |-> [progs EXCEPT ![th.prog].expressions = Tail(@)]]

\* one turn of the list comprehension of Concat.eval: e.eval(value) for the
\* next e of self.expressions; the thread's locals and the shared programs
\* afterwards
ConcatStep(th, progs) ==
    LET r == Eval(progs[th.prog].expressions[th.k], th.input)
    IN  [th |-> IF r.exc # "none"
                THEN [th EXCEPT !.state = "done", !.res = r]
                ELSE [th EXCEPT !.k = @ + 1, !.parts = Append(@, r.val)],
         programs |-> progs]

\* whether the list comprehension of thread record th has an e left
HasNext(th, progs) ==
    th.k <= Len(progs[th.prog].expressions) /\ progs[th.prog].expressions # <<>>

StepEval(t) ==
    /\ evals[t].state = "running"
    /\ HasNext(evals[t], programs)
    /\ LET after == ConcatStep(evals[t], programs)
       IN  /\ evals' = [evals EXCEPT ![t] = after.th]
           /\ programs' = after.programs
    /\ UNCHANGED <<dslVars, trainVars>>

\* ''.join of the results is returned
Return(t) ==
    /\ evals[t].state = "running"
    /\ ~HasNext(evals[t], programs)
    /\ evals' = [evals EXCEPT ![t] =
                    [@ EXCEPT !.state = "done",
                              !.res = Ok(Join(<<>>, evals[t].parts))]]
    /\ UNCHANGED <<programs, dslVars, trainVars>>

NextPure ==
    \/ \E t \in Threads : Call(t)
    \/ \E t \in Threads : StepEval(t)
    \/ \E t \in Threads : Return(t)

SpecPure == InitPure /\ [][NextPure]_vars

(***************************************************************************)
(* Trainer.train: the loop over training steps and, inside a step, the     *)
(* loop over the attempts of run_batch.  run_batch and _save_checkpoint    *)
(* are calls into torch; their outcome is the environment's choice.        *)
(***************************************************************************)
\* Number of times to retry if cuda OOM is encountered.
OOM_RETRIES == 2

\* the training steps the model runs
MaxSteps == 3
\* checkpoint_step_size ranges over 1..MaxStepSize
MaxStepSize == 2

\* config.device: None or a torch.device ("none"), or the rank of a DDP process
Devices == {"none", "rank0", "rank1"}

Configs == [device : Devices, checkpoint_step_size : 1..MaxStepSize]

\* not isinstance(self.config.device, int) or self.config.device == 0
Checkpointable == config.device = "none" \/ config.device = "rank0"

\* whether this step calls _save_checkpoint
CheckpointDue ==
    Checkpointable /\ example_idx % config.checkpoint_step_size = 0

InitTrain ==
    /\ DslIdle
    /\ PureIdle
    /\ config \in Configs
    /\ tpc = "run_batch"
    /\ retry_i = 0
    /\ example_idx = 0
    /\ step_info = Unbound
    /\ calls = 0
    /\ outcome = "none"
    /\ raised = "none"
    /\ saved = <<>>

\* run_batch returns: step_info is bound and the for loop is left by break
RunBatchReturns ==
    /\ tpc = "run_batch"
    /\ calls' = calls + 1
    /\ outcome' = "ok"
    /\ step_info' = [step |-> example_idx]
    /\ tpc' = "checkpoint"
    /\ UNCHANGED <<config, retry_i, example_idx, raised, saved>>
    /\ UNCHANGED <<dslVars, pureVars>>

\* the except clause swallowing every OutOfMemoryError: after the last
\* iteration the for loop ends and train goes on to the checkpoint
RunBatchOOM_swallowed ==
    /\ tpc = "run_batch"
    /\ calls' = calls + 1
    /\ outcome' = "oom"
    /\ IF retry_i = OOM_RETRIES
       THEN tpc' = "checkpoint" /\ UNCHANGED retry_i
       ELSE retry_i' = retry_i + 1 /\ UNCHANGED tpc
    /\ UNCHANGED <<config, example_idx, step_info, raised, saved>>
    /\ UNCHANGED <<dslVars, pureVars>>

\* run_batch raises torch.cuda.OutOfMemoryError: re-raised in the last
\* iteration, otherwise the next iteration of the for loop
RunBatchOOM ==
    /\ tpc = "run_batch"
    /\ calls' = calls + 1
    /\ outcome' = "oom"
    /\ IF retry_i = OOM_RETRIES
       THEN /\ tpc' = "raised"
            /\ raised' = "OutOfMemoryError"
            /\ UNCHANGED retry_i
       ELSE /\ retry_i' = retry_i + 1
            /\ UNCHANGED <<tpc, raised>>
    /\ UNCHANGED <<config, example_idx, step_info, saved>>
    /\ UNCHANGED <<dslVars, pureVars>>

\* run_batch raises anything else: no except clause matches
RunBatchRaises ==
    /\ tpc = "run_batch"
    /\ calls' = calls + 1
    /\ outcome' = "error"
    /\ tpc' = "raised"
    /\ raised' = "Exception"
    /\ UNCHANGED <<config, retry_i, example_idx, step_info, saved>>
    /\ UNCHANGED <<dslVars, pureVars>>

\* the rest of the loop body: the checkpoint when it is due, then
\* example_idx += 1 and the next training step
NextExample ==
    /\ tpc = "checkpoint"
    /\ example_idx < MaxSteps
    /\ saved' = IF CheckpointDue
                THEN Append(saved, [step_info |-> step_info,
                                    example_idx |-> example_idx])
                ELSE saved
    /\ example_idx' = example_idx + 1
    /\ retry_i' = 0
    /\ calls' = 0
    /\ tpc' = "run_batch"
    /\ UNCHANGED <<config, step_info, outcome, raised>>
    /\ UNCHANGED <<dslVars, pureVars>>

\* _save_checkpoint raises (torch.save fails): train is left
SaveRaises ==
    /\ tpc = "checkpoint"
    /\ CheckpointDue
    /\ tpc' = "raised"
    /\ raised' = "Exception"
    /\ UNCHANGED <<config, retry_i, example_idx, step_info, calls, outcome, saved>>
    /\ UNCHANGED <<dslVars, pureVars>>

NextTrain ==
    \/ RunBatchReturns
    \/ RunBatchOOM
    \/ RunBatchRaises
    \/ NextExample
    \/ SaveRaises

SpecTrain == InitTrain /\ [][NextTrain]_vars

(***************************************************************************)
(* Properties.                                                             *)
(***************************************************************************)
Done(op) == pc = "done" /\ node.op = op

\* a well-formed DSL regex: a Type, or one character of DELIMITER
WellFormedRegex(dsl_regex) ==
    \/ IsType(dsl_regex)
    \/ Len(dsl_regex.s) = 1 /\ dsl_regex.s[1] \in DELIMITER

RegexOps == {"GetSpan", "GetUpto", "GetFrom"}

\* whether every DSL regex argument of node n is well-formed
WellFormed(n) ==
    IF n.op = "GetSpan"
    THEN WellFormedRegex(n.dsl_regex1) /\ WellFormedRegex(n.dsl_regex2)
    ELSE WellFormedRegex(n.dsl_regex)

\* C1: for 1 <= pos1 <= pos2 <= len(value), SubStr(pos1, pos2).eval(value)
\* is value[pos1-1 : pos2], the pos1-th to the pos2-th character inclusive.
C1_SubStrPositive ==
    (Done("SubStr") /\ 1 <= node.pos1 /\ node.pos1 <= node.pos2
                    /\ node.pos2 <= Len(value))
        => out = Ok(SubSeq(value, node.pos1, node.pos2))

C1_Witness ==
    /\ Done("SubStr") /\ node.pos1 = 2 /\ node.pos2 = 3 /\ Len(value) = 3
    /\ out = Ok(<<value[2], value[3]>>)

\* the 0-based offset a position inside the string denotes
Resolved(pos, s) == IF pos > 0 THEN pos - 1 ELSE Len(s) + pos

InString(pos, s) ==
    \/ 1 <= pos /\ pos <= Len(s)
    \/ 0 - Len(s) <= pos /\ pos <= -1

\* C2: for positions inside a non-empty string, at least one of them
\* negative, SubStr(pos1, pos2).eval(value) is value[a(pos1) : a(pos2)+1]
\* with a(pos) the 0-based offset pos denotes; when pos2 is -1 that is the
\* suffix through the last character, not the empty string.
C2_SubStrNegative ==
    (Done("SubStr") /\ Len(value) >= 1
        /\ InString(node.pos1, value) /\ InString(node.pos2, value)
        /\ (node.pos1 < 0 \/ node.pos2 < 0))
        => LET a1 == Resolved(node.pos1, value)
               a2 == Resolved(node.pos2, value)
           IN  /\ out = Ok(IF a1 > a2 THEN <<>> ELSE SubSeq(value, a1 + 1, a2 + 1))
               /\ node.pos2 = -1 => out = Ok(SubSeq(value, a1 + 1, Len(value)))

C2_Witness ==
    /\ Done("SubStr") /\ node.pos1 = 1 /\ node.pos2 = -1 /\ Len(value) = 3
    /\ out = Ok(value)

\* the offset of span the boundary selects
BoundOf(span, bound) == IF bound = "START" THEN span[1] ELSE span[2]

\* what C3 says resolving the endpoint (dsl_regex, index, bound) gives
ClampsToMatch(dsl_regex, index, bound, v) ==
    LET matches == IF WellFormedRegex(dsl_regex)
                   THEN match_dsl_regex(dsl_regex, v) ELSE <<>>
        n == Len(matches)
        got == span_index(dsl_regex, index, bound, v)
    IN  (WellFormedRegex(dsl_regex) /\ n >= 1) =>
            /\ index > n => got = [exc |-> "none", pos |-> BoundOf(matches[n], bound)]
            /\ index < 0 - n => got = [exc |-> "none", pos |-> BoundOf(matches[1], bound)]

\* C3: with n >= 1 matches, a GetSpan endpoint whose index exceeds n
\* resolves to the start/end offset of the last match, and one whose index
\* is below -n to the start/end offset of the first match.
C3_SpanClamp ==
    Done("GetSpan") =>
        /\ ClampsToMatch(node.dsl_regex1, node.index1, node.bound1, value)
        /\ ClampsToMatch(node.dsl_regex2, node.index2, node.bound2, value)

\* C4: SubStr.eval and GetSpan.eval return a string and never raise, for
\* every string (the empty one included), every position or index (zero and
\* out-of-range ones included) and every well-formed DSL regex.
C4_Total ==
    /\ Done("SubStr") => out.exc = "none"
    /\ (Done("GetSpan") /\ WellFormed(node)) => out.exc = "none"

C4_Witness ==
    /\ Done("GetSpan") /\ value = <<"a", " ", "a">>
    /\ node.dsl_regex1 = TypeRegex("WORD") /\ node.index1 = 0 - MaxIdx
    /\ node.dsl_regex2 = StrRegex(<<" ">>) /\ node.index2 = MaxIdx
    /\ out.exc = "none"

\* C5: GetFirst(type_, index).eval(value) raises for every index < 0 and
\* for index >= 0 returns the first min(index, n) matches concatenated in
\* order with no separator, n being the number of matches.
C5_GetFirst ==
    Done("GetFirst") =>
        LET matches == match_type(node.type_, value)
            k == Min(node.index, Len(matches))
        IN  IF node.index < 0 THEN out.exc = "IndexError"
            ELSE out = Ok(Join(<<>>, SubSeq(matches, 1, k)))

C5_Witness ==
    /\ Done("GetFirst") /\ node.type_ = "CHAR" /\ node.index = 2
    /\ value = <<"a", "B", "1">>
    /\ out = Ok(<<"a", "B">>)

\* C6: GetToken(type_, index).eval(value), with n matches: the index-th
\* match for 1 <= index <= n, the match at that offset from the end for
\* -n <= index <= -1, and a bounds error, never a clamped match, for
\* index > n or index < -n.
C6_GetToken ==
    Done("GetToken") =>
        LET matches == match_type(node.type_, value)
            n == Len(matches)
            i == node.index
        IN  /\ (1 <= i /\ i <= n) => out = Ok(matches[i])
            /\ (0 - n <= i /\ i <= -1) => out = Ok(matches[n + i + 1])
            /\ (i > n \/ i < 0 - n) => out = Raise("IndexError")

C6_Witness ==
    /\ Done("GetToken") /\ node.type_ = "WORD" /\ node.index = -1
    /\ value = <<"a", " ", "B">>
    /\ out = Ok(<<"B">>)

MatchStarts(regex, v) == {i \in 0..(Len(v) - 1) : MatchAt(regex, v, i) # -1}

\* the pattern a well-formed DSL regex stands for
PatternOf(dsl_regex) ==
    IF IsType(dsl_regex) THEN regex_for_type(dsl_regex.t)
    ELSE Pattern(<<>>, {dsl_regex.s[1]}, FALSE)

\* the end offset of the leftmost match
FirstMatchEnd(regex, v) ==
    LET i == CHOOSE i \in MatchStarts(regex, v) :
                 \A j \in MatchStarts(regex, v) : i <= j
    IN  MatchAt(regex, v, i)

\* C8: with a well-formed DSL regex, GetUpto and GetFrom return the empty
\* string when there is no match, and otherwise value[0:e] and value[e:]
\* with e the end offset of the leftmost match.
C8_UptoFrom ==
    (pc = "done" /\ node.op \in {"GetUpto", "GetFrom"} /\ WellFormed(node)) =>
        LET regex == PatternOf(node.dsl_regex)
        IN  IF MatchStarts(regex, value) = {} THEN out = Ok(<<>>)
            ELSE LET e == FirstMatchEnd(regex, value)
                 IN  IF node.op = "GetUpto" THEN out = Ok(SubSeq(value, 1, e))
                     ELSE out = Ok(SubSeq(value, e + 1, Len(value)))

C8_Witness ==
    /\ Done("GetUpto") /\ node.dsl_regex = TypeRegex("DIGIT")
    /\ value = <<"a", "1", "B">>
    /\ out = Ok(<<"a", "1">>)

RECURSIVE Flatten(_)
\* the strings of a sequence, one after the other
Flatten(strs) ==
    IF Len(strs) = 0 THEN <<>>
    ELSE Flatten(SubSeq(strs, 1, Len(strs) - 1)) \o strs[Len(strs)]

\* C9: Concat.eval(value) is the concatenation, in declared order, of the
\* results of the expressions, each evaluated on value itself.
C9_Concat ==
    Done("Concat") =>
        LET rs == [k \in 1..Len(node.expressions) |-> Eval(node.expressions[k], value)]
        IN  IF \A k \in 1..Len(rs) : rs[k].exc = "none"
            THEN out = Ok(Flatten([k \in 1..Len(rs) |-> rs[k].val]))
            ELSE out.exc # "none"

C9_Witness ==
    /\ Done("Concat")
    /\ node.expressions = <<ConstStr(<<"a">>), SubStr(1, 2)>>
    /\ value = <<"B", "1", " ">>
    /\ out = Ok(<<"a", "B", "1">>)

\* C10: Compose(outer, inner).eval(value) is outer.eval(inner.eval(value)):
\* the inner expression is evaluated on value and the outer one on its
\* result.
C10_Compose ==
    Done("Compose") =>
        LET inner == Eval(node.nesting_or_substring, value)
        IN  inner.exc = "none" => out = Eval(node.nesting, inner.val)

C10_Witness ==
    /\ Done("Compose")
    /\ node.nesting = ToCase("ALL_CAPS")
    /\ node.nesting_or_substring = SubStr(2, 3)
    /\ value = <<"B", "a", "a">>
    /\ out = Ok(<<"A", "A">>)

C12_Trim ==
    Done("Trim") =>
        /\ out.exc = "none"
        /\ Eval(node, out.val) = out
        /\ Len(out.val) > 0 =>
              /\ out.val[1] \notin Whitespace
              /\ out.val[Len(out.val)] \notin Whitespace

C12_Witness ==
    /\ Done("Trim") /\ value = <<" ", "a", " ">>
    /\ out = Ok(<<"a">>)

\* C13: for one-character delimiters, Replace(delim1, delim2).eval(value) is
\* value with every occurrence of delim1 replaced by delim2 and every other
\* character unchanged in its place; it is value when delim1 does not occur.
C13_Replace ==
    Done("Replace") =>
        /\ out.exc = "none"
        /\ Len(out.val) = Len(value)
        /\ \A k \in 1..Len(value) :
              out.val[k] = IF value[k] = node.delim1[1] THEN node.delim2[1]
                           ELSE value[k]
        /\ (\A k \in 1..Len(value) : value[k] # node.delim1[1]) => out = Ok(value)

C13_Witness ==
    /\ Done("Replace") /\ node.delim1 = <<" ">> /\ node.delim2 = <<"-">>
    /\ value = <<" ", "a", " ">>
    /\ out = Ok(<<"-", "a", "-">>)

RECURSIVE SpaceSeparated(_)
\* the strings of a sequence with one space between neighbours
SpaceSeparated(strs) ==
    IF Len(strs) = 0 THEN <<>>
    ELSE IF Len(strs) = 1 THEN strs[1]
    ELSE SpaceSeparated(SubSeq(strs, 1, Len(strs) - 1)) \o <<" ">> \o strs[Len(strs)]

\* C14: the substrings match_type returns are the substrings of value at the
\* spans match_dsl_regex returns for the same category, as many and in the
\* same order; GetAll.eval joins them with exactly one space (the empty
\* string when there is none, no separator at either end).
C14_GetAll ==
    Done("GetAll") =>
        LET strs == match_type(node.type_, value)
            spans == match_dsl_regex(TypeRegex(node.type_), value)
        IN  /\ Len(strs) = Len(spans)
            /\ \A k \in 1..Len(spans) :
                  strs[k] = SubSeq(value, spans[k][1] + 1, spans[k][2])
            /\ out = Ok(SpaceSeparated(
                         [k \in 1..Len(spans) |->
                             SubSeq(value, spans[k][1] + 1, spans[k][2])]))
            /\ Len(spans) = 0 => out = Ok(<<>>)

C14_Witness ==
    /\ Done("GetAll") /\ node.type_ = "WORD"
    /\ value = <<"a", "1", "B">>
    /\ out = Ok(<<"a", " ", "B">>)

\* whether string s as a whole matches the pattern of the category
FullMatch(type_, s) ==
    CASE type_ = "NUMBER"    -> Len(s) >= 1 /\ \A k \in 1..Len(s) : s[k] \in DigitChars
      [] type_ = "WORD"      -> Len(s) >= 1 /\ \A k \in 1..Len(s) : s[k] \in Letters
      [] type_ = "ALPHANUM"  ->
             Len(s) >= 1 /\ \A k \in 1..Len(s) : s[k] \in Letters \cup DigitChars
      [] type_ = "ALL_CAPS"  -> Len(s) >= 1 /\ \A k \in 1..Len(s) : s[k] \in UpperChars
      [] type_ = "PROP_CASE" ->
             /\ Len(s) >= 2 /\ s[1] \in UpperChars
             /\ \A k \in 2..Len(s) : s[k] \in LowerChars
      [] type_ = "LOWER"     -> Len(s) >= 1 /\ \A k \in 1..Len(s) : s[k] \in LowerChars
      [] type_ = "DIGIT"     -> Len(s) = 1 /\ s[1] \in DigitChars
      [] type_ = "CHAR"      -> Len(s) = 1 /\ s[1] \in Letters \cup DigitChars

\* the categories whose pattern is one character class under +
RunTypes == {"NUMBER", "WORD", "ALPHANUM", "ALL_CAPS", "LOWER"}

\* whether span is a run of the category that no neighbour extends
MaximalRun(type_, span, v) ==
    /\ span[1] > 0 => ~FullMatch(type_, <<v[span[1]]>>)
    /\ span[2] < Len(v) => ~FullMatch(type_, <<v[span[2] + 1]>>)

\* what C15 says of the spans the matcher returns for dsl_regex on v
SpansOk(dsl_regex, spans, v) ==
    /\ \A k \in 1..Len(spans) :
          /\ 0 <= spans[k][1] /\ spans[k][1] < spans[k][2] /\ spans[k][2] <= Len(v)
          /\ k < Len(spans) => spans[k][2] <= spans[k + 1][1]
          /\ IF IsType(dsl_regex)
             THEN /\ FullMatch(dsl_regex.t, SubSeq(v, spans[k][1] + 1, spans[k][2]))
                  /\ dsl_regex.t \in RunTypes => MaximalRun(dsl_regex.t, spans[k], v)
                  /\ dsl_regex.t \in {"DIGIT", "CHAR"} => spans[k][2] = spans[k][1] + 1
             ELSE /\ SubSeq(v, spans[k][1] + 1, spans[k][2]) = dsl_regex.s
                  /\ spans[k][2] = spans[k][1] + 1

\* C15: for every category and every delimiter character the spans the
\* matcher returns are in left-to-right order and do not overlap, lie inside
\* the string and are not empty; each one's substring matches the pattern;
\* NUMBER, WORD, ALPHANUM, ALL_CAPS and LOWER spans are maximal runs; DIGIT,
\* CHAR and delimiter spans have length 1.
C15_Spans ==
    (pc = "done" /\ node.op \in {"GetUpto", "GetFrom"} /\ WellFormed(node)) =>
        SpansOk(node.dsl_regex, match_dsl_regex(node.dsl_regex, value), value)

C15_Witness ==
    /\ Done("GetFrom") /\ node.dsl_regex = TypeRegex("WORD")
    /\ value = <<"a", "B", " ">>
    /\ match_dsl_regex(node.dsl_regex, value) = <<<<0, 2>>>>
    /\ out = Ok(<<" ">>)

\* whether the step is a call of run_batch
CallsRunBatch == calls' = calls + 1

\* C17, what holds in every state: a training step has called run_batch at
\* most OOM_RETRIES + 1 times; an OutOfMemoryError leaves train only after
\* the last of them; the checkpoint is reached with the step_info of an
\* attempt of this step.
C17_State ==
    /\ calls <= OOM_RETRIES + 1
    /\ raised = "OutOfMemoryError" => tpc = "raised" /\ calls = OOM_RETRIES + 1
    /\ tpc = "checkpoint" => outcome = "ok" /\ step_info = [step |-> example_idx]

\* C17, what holds of every step: an OutOfMemoryError of attempt 1 or 2 is
\* swallowed and run_batch is called again, one of attempt 3 leaves train,
\* any other failure leaves train at once; example_idx grows by one, and a
\* checkpoint is saved, only after an attempt of the step has returned.
C17_Step ==
    /\ (CallsRunBatch /\ outcome' = "oom" /\ calls' <= OOM_RETRIES) =>
           /\ tpc' = "run_batch" /\ raised' = "none"
           /\ example_idx' = example_idx /\ saved' = saved
    /\ (CallsRunBatch /\ outcome' = "oom" /\ calls' = OOM_RETRIES + 1) =>
           /\ tpc' = "raised" /\ raised' = "OutOfMemoryError"
           /\ example_idx' = example_idx
    /\ (CallsRunBatch /\ outcome' = "error") =>
           /\ tpc' = "raised" /\ raised' = "Exception"
           /\ example_idx' = example_idx
    /\ example_idx' # example_idx =>
           /\ example_idx' = example_idx + 1
           /\ tpc = "checkpoint" /\ outcome = "ok"
           /\ step_info = [step |-> example_idx]
           /\ tpc' = "run_batch" /\ calls' = 0
    /\ saved' # saved => example_idx' = example_idx + 1

\* C17: Trainer.train attempts run_batch at most OOM_RETRIES + 1 = 3 times
\* per training step, retries after an out-of-memory failure of attempt 1
\* or 2, lets the one of attempt 3 and any other failure propagate, and
\* increments example_idx (and considers a checkpoint) once per step, only
\* after an attempt of that step succeeded.
C17_Retry == [](C17_State) /\ [][C17_Step]_vars

C17_Witness ==
    /\ tpc = "checkpoint" /\ calls = OOM_RETRIES + 1 /\ retry_i = OOM_RETRIES
    /\ example_idx = 1 /\ step_info = [step |-> 1]
    /\ raised = "none"

\* C16, the outcomes: whatever the other threads did meanwhile, a finished
\* evaluation has the outcome (string or exception) that its program, as
\* constructed, has on its input.
C16_Outcome ==
    \A t \in Threads :
        evals[t].state = "done" =>
            evals[t].res = Eval(SharedPrograms[evals[t].prog], evals[t].input)

\* C16: no evaluation modifies a field of a program, and under every
\* interleaving each evaluation's outcome depends on its own program and
\* input only, so that repeating it gives the same outcome.
C16_Pure == [](C16_Outcome) /\ [][programs' = programs]_vars

C16_Witness ==
    /\ evals[1].state = "done" /\ evals[2].state = "done"
    /\ evals[1].prog = 2 /\ evals[2].prog = 2
    /\ evals[1].input = <<"1", "a">> /\ evals[1].res = Raise("IndexError")
    /\ evals[2].input = <<"a", " ", "B">> /\ evals[2].res = Ok(<<"B", "B">>)
====
